---- MODULE Spec2Model ----
(***************************************************************************)
(* A model of detecter/runner/base_runner.py: BaseRunner, its priority     *)
(* ordered hook list, its progress counters and its state_dict /           *)
(* load_state_dict / resume_or_load.                                       *)
(***************************************************************************)
EXTENDS Integers, Sequences, FiniteSets, TLC

VARIABLES
    status,       \* "new" before __init__ ran, "failed" when it raised, "ready" after it
    is_main,      \* dist_comm.is_main_process() of this process
    max_epochs,   \* self._max_epochs (None when not set)
    max_iters,    \* self._max_iters  (None when not set)
    hooks,        \* self._hooks: the hook list, a sequence of hook objects
    priority,     \* hook.priority of every hook object (NoPriority: no such attribute)
    registered,   \* the hook objects in the order register_hook accepted them
    hstate,       \* what each hook object's state_dict() returns (Empty: falsy)
    opt,          \* what self.optimizer.state_dict() returns
    iter,         \* self._iter
    epoch,        \* self._epoch
    inner_iter,   \* self._inner_iter
    mode,         \* self.mode ("none": None)
    run_state,    \* where run() is: NOT_STARTED, RUNNING, FINISHED or ABORTED
    steps,        \* the steps run() has completed
    group,        \* the runners of the processes of the group: their hook lists
    writers,      \* the processes whose checkpoint hook wrote to storage
    last_order,   \* per event, the order of its last completed dispatch since the
                  \* last registration (NotCalled: none yet)
    res           \* the last call on the runner: its arguments, result and error

vars == <<status, is_main, max_epochs, max_iters, hooks, priority, registered,
          hstate, opt, iter, epoch, inner_iter, mode, run_state, steps,
          group, writers, last_order, res>>

----------------------------------------------------------------------------
(* Bounds of the model. *)

\* The largest iter / epoch a snapshot handed to load_state_dict carries, and
\* the budget a runner is constructed with.
MaxCount == 1

\* The states a hook's callbacks give it are Empty or 1..MaxState.
MaxState == 2

\* The run loop is followed while iter, epoch and inner_iter are below this.
MaxStep == 2

\* The processes of a group.
NProcs == 2

----------------------------------------------------------------------------
(* Values. *)

\* Python's None, for max_epochs / max_iters.
None == -1

\* hasattr(hook, 'priority') is False.
NoPriority == -1

\* get_priority('NORMAL'), the default of register_hook.
NORMAL == 50

\* A state_dict() that is falsy ({} or None).
Empty == 0

\* The hook objects: the PeriodicCheckpointer that __init__ builds, three hooks a
\* caller builds (two of them of one class) and one hook object that was given a
\* priority attribute elsewhere.
CkptHook == "ckpt"
UserHooks == {"a1", "a2", "b1"}
UsedHook == "x1"
Hooks == {CkptHook, UsedHook} \cup UserHooks

\* type(h).__qualname__
KindOf(h) ==
    CASE h = CkptHook -> "PeriodicCheckpointer"
      [] h \in {"a1", "a2"} -> "A"
      [] h = "b1" -> "B"
      [] OTHER -> "X"

Kinds == {KindOf(h) : h \in Hooks}

\* The priorities a caller passes to register_hook.
PriorityInputs == {5, 10, NORMAL}

\* The lifecycle callbacks call_hook is asked for.
Events == {"before_run", "after_train_iter"}

\* No dispatch of the event completed yet.
NotCalled == <<"none">>

\* What a hook's state_dict() can return.
States == 0..MaxState

\* What max_iters and max_epochs are constructed with.
Budgets == {None, MaxCount}

\* The budgets of the runs that are followed to their end.
RunBudgets == {None} \cup (1..MaxStep)

\* The processes of a group, by rank; is_main_process() holds on rank 0.
Procs == 0..(NProcs - 1)
MainRank == 0

\* A process that has not constructed its runner.
NoPeer == [status |-> "new", hooks |-> <<>>, registered |-> <<>>,
           priority |-> [h \in Hooks |-> NoPriority]]

----------------------------------------------------------------------------
(* The record of the last call. *)

NoSnapshot == [iter |-> 0, epoch |-> 0, optimizer |-> Empty, hooks |-> <<>>]

\* A runner's counters, optimizer state and hook states, as a value.
NoRunner == [iter |-> 0, epoch |-> 0, optimizer |-> Empty,
             hstate |-> [h \in Hooks |-> Empty]]

NoRes ==
    [op |-> "none", raised |-> "none", hook |-> "", fn |-> "",
     budgets |-> <<None, None>>, dispatched |-> <<>>, prev |-> <<>>,
     arg |-> NoSnapshot, ret |-> NoSnapshot, warned |-> <<>>,
     resume |-> FALSE, present |-> FALSE, fresh |-> NoRunner,
     effect |-> None, failed |-> 0, delivered |-> <<>>]

Call(op) == [NoRes EXCEPT !.op = op]

----------------------------------------------------------------------------
(* register_hook *)

\* The for loop of register_hook: from the tail backward, insert after the
\* first hook whose priority is <= p; at the head when there is none.
RECURSIVE InsertFrom(_, _, _, _, _)
InsertFromStrict(hs, pr, h, p, i) ==
    IF i = 0 THEN <<h>> \o hs
    ELSE IF p > pr[hs[i]]
         THEN SubSeq(hs, 1, i) \o <<h>> \o SubSeq(hs, i + 1, Len(hs))
         ELSE InsertFrom(hs, pr, h, p, i - 1)
InsertFromOverwriting(hs, pr, h, p, i) ==
    IF i = 0 THEN <<h>> \o hs
    ELSE IF p >= pr[hs[i]]
         THEN SubSeq(hs, 1, i) \o <<h>> \o SubSeq(hs, i + 2, Len(hs))
         ELSE InsertFrom(hs, pr, h, p, i - 1)
InsertFrom(hs, pr, h, p, i) ==
    IF i = 0 THEN <<h>> \o hs
    ELSE IF p >= pr[hs[i]]
         THEN SubSeq(hs, 1, i) \o <<h>> \o SubSeq(hs, i + 1, Len(hs))
         ELSE InsertFrom(hs, pr, h, p, i - 1)

\* hasattr(hook, 'priority')
HasPriorityNever(pr, h) == FALSE
HasPriority(pr, h) == pr[h] # NoPriority

\* register_hook on the hook list hs with the priorities pr: what it leaves.
RegisterInto(hs, pr, rg, h, p) ==
    IF HasPriority(pr, h)
    THEN [hooks |-> hs, priority |-> pr, registered |-> rg, raised |-> "ValueError"]
    ELSE [hooks |-> InsertFrom(hs, [pr EXCEPT ![h] = p], h, p, Len(hs)),
          priority |-> [pr EXCEPT ![h] = p],
          registered |-> Append(rg, h),
          raised |-> "none"]

\* The hook objects a caller can hand to register_hook: the PeriodicCheckpointer
\* exists only where _register_default_hook built it.
Exists(h) == h = CkptHook => h \in {hooks[i] : i \in 1..Len(hooks)}

RegisterHook(h, p) ==
    /\ status = "ready"
    /\ Exists(h)
    /\ LET r == RegisterInto(hooks, priority, registered, h, p) IN
        /\ hooks' = r.hooks
        /\ priority' = r.priority
        /\ registered' = r.registered
        /\ res' = [Call("register_hook") EXCEPT !.hook = h, !.raised = r.raised]
        /\ last_order' = IF r.raised = "none"
                         THEN [e \in Events |-> NotCalled]
                         ELSE last_order
    /\ UNCHANGED <<status, is_main, max_epochs, max_iters, hstate, opt,
                   iter, epoch, inner_iter>>
    /\ UNCHANGED <<mode, run_state, steps, group, writers>>

----------------------------------------------------------------------------
(* __init__ *)

\* _register_default_hook: the checkpoint hook, on the main process only.
RegisterDefaultHookEverywhere(main, hs, pr, rg) ==
    RegisterInto(hs, pr, rg, CkptHook, NORMAL)
RegisterDefaultHook(main, hs, pr, rg) ==
    IF main
    THEN RegisterInto(hs, pr, rg, CkptHook, NORMAL)
    ELSE [hooks |-> hs, priority |-> pr, registered |-> rg, raised |-> "none"]

\* The check of lines 87-89.
BothBudgetsUnchecked(me, mi) == FALSE
BothBudgets(me, mi) == me # None /\ mi # None

Construct(mi, me) ==
    /\ status = "new"
    /\ IF BothBudgets(me, mi)
       THEN /\ status' = "failed"
            /\ res' = [Call("__init__") EXCEPT !.raised = "ValueError",
                                               !.budgets = <<me, mi>>]
            /\ UNCHANGED <<max_epochs, max_iters, hooks, priority, registered>>
       ELSE LET r == RegisterDefaultHook(is_main, <<>>, priority, <<>>) IN
            /\ status' = "ready"
            /\ max_epochs' = me
            /\ max_iters' = mi
            /\ hooks' = r.hooks
            /\ priority' = r.priority
            /\ registered' = r.registered
            /\ res' = [Call("__init__") EXCEPT !.budgets = <<me, mi>>]
    /\ iter' = 0
    /\ epoch' = 0
    /\ inner_iter' = 0
    /\ mode' = "none"
    /\ UNCHANGED <<is_main, hstate, opt, last_order>>
    /\ UNCHANGED <<run_state, steps, group, writers>>

----------------------------------------------------------------------------
(* call_hook *)

\* The hooks call_hook invokes when the callback of the k-th raises (k = 0:
\* none raises): the for loop stops at the first exception.
DispatchedBackward(hs, k) ==
    IF k = 0 THEN [i \in 1..Len(hs) |-> hs[Len(hs) + 1 - i]] ELSE SubSeq(hs, 1, k)
DispatchedPastFailure(hs, k) == hs
Dispatched(hs, k) == IF k = 0 THEN hs ELSE SubSeq(hs, 1, k)

\* The hooks whose callback returned.
Completed(hs, k) ==
    LET d == Dispatched(hs, k) IN
    IF k = 0 THEN d ELSE SubSeq(d, 1, Len(d) - 1)

\* What the callbacks leave behind: each callback that returned has put its
\* hook's state to v (v = NoEffect: the callbacks change nothing).
NoEffect == None
Effects(hs, hst, k, v) ==
    LET c == Completed(hs, k) IN
    [h \in Hooks |-> IF v # NoEffect /\ (\E i \in 1..Len(c) : c[i] = h)
                     THEN v ELSE hst[h]]

CallHook(fn, k, v) ==
    /\ status = "ready"
    /\ k \in 0..Len(hooks)
    /\ hstate' = Effects(hooks, hstate, k, v)
    /\ res' = [Call("call_hook") EXCEPT
                 !.fn = fn,
                 !.dispatched = Dispatched(hooks, k),
                 !.prev = last_order[fn],
                 !.effect = v,
                 !.failed = k,
                 !.raised = IF k = 0 THEN "none" ELSE "HookError"]
    /\ last_order' = IF k = 0
                     THEN [last_order EXCEPT ![fn] = Dispatched(hooks, k)]
                     ELSE last_order
    /\ UNCHANGED <<status, is_main, max_epochs, max_iters, hooks, priority,
                   registered, opt, iter, epoch, inner_iter>>
    /\ UNCHANGED <<mode, run_state, steps, group, writers>>

----------------------------------------------------------------------------
(* state_dict *)

HasKey(entries, name) == \E i \in 1..Len(entries) : entries[i].kind = name

\* The for loop of state_dict over self._hooks from position i on: hooks_state,
\* a dict, as the sequence of its items in insertion order.
RECURSIVE HooksState(_, _, _, _)
HooksStateLastWins(hs, hst, i, acc) ==
    IF i > Len(hs) THEN acc
    ELSE LET sd == hst[hs[i]]
             name == KindOf(hs[i])
         IN IF sd = Empty THEN HooksState(hs, hst, i + 1, acc)
            ELSE IF HasKey(acc, name)
                 THEN HooksState(hs, hst, i + 1,
                        [j \in 1..Len(acc) |->
                           IF acc[j].kind = name
                           THEN [kind |-> name, state |-> sd] ELSE acc[j]])
                 ELSE HooksState(hs, hst, i + 1,
                        Append(acc, [kind |-> name, state |-> sd]))
HooksStateAll(hs, hst, i, acc) ==
    IF i > Len(hs) THEN acc
    ELSE LET sd == hst[hs[i]]
             name == KindOf(hs[i])
         IN IF HasKey(acc, name)
            THEN HooksState(hs, hst, i + 1, acc)
            ELSE HooksState(hs, hst, i + 1,
                   Append(acc, [kind |-> name, state |-> sd]))
HooksState(hs, hst, i, acc) ==
    IF i > Len(hs) THEN acc
    ELSE LET sd == hst[hs[i]]
             name == KindOf(hs[i])
         IN IF sd = Empty THEN HooksState(hs, hst, i + 1, acc)
            ELSE IF HasKey(acc, name)
                 THEN HooksState(hs, hst, i + 1, acc)
                 ELSE HooksState(hs, hst, i + 1,
                        Append(acc, [kind |-> name, state |-> sd]))

\* What state_dict returns; a snapshot without the "hooks" key has hooks = <<>>.
StateDictOf(it, ep, op, hs, hst) ==
    [iter |-> it, epoch |-> ep, optimizer |-> op,
     hooks |-> HooksState(hs, hst, 1, <<>>)]

\* state_dict, called on the runner.
StateDictDraining ==
    /\ status = "ready"
    /\ res' = [Call("state_dict") EXCEPT
                 !.ret = StateDictOf(iter, epoch, opt, hooks, hstate)]
    /\ hstate' = [h \in Hooks |-> Empty]
    /\ UNCHANGED <<status, is_main, max_epochs, max_iters, hooks, priority,
                   registered, opt, iter, epoch, inner_iter, last_order>>
    /\ UNCHANGED <<mode, run_state, steps, group, writers>>
StateDict ==
    /\ status = "ready"
    /\ res' = [Call("state_dict") EXCEPT
                 !.ret = StateDictOf(iter, epoch, opt, hooks, hstate)]
    /\ UNCHANGED <<status, is_main, max_epochs, max_iters, hooks, priority,
                   registered, hstate, opt, iter, epoch, inner_iter, last_order>>
    /\ UNCHANGED <<mode, run_state, steps, group, writers>>

----------------------------------------------------------------------------
(* load_state_dict *)

\* The inner for loop: the position in hs of the first hook whose class name is
\* key (0: the loop ends without a break).
LastOfKind(hs, key) ==
    IF \E i \in 1..Len(hs) : KindOf(hs[i]) = key
    THEN CHOOSE i \in 1..Len(hs) :
           /\ KindOf(hs[i]) = key
           /\ \A j \in (i + 1)..Len(hs) : KindOf(hs[j]) # key
    ELSE 0
FirstOfKind(hs, key) ==
    IF \E i \in 1..Len(hs) : KindOf(hs[i]) = key
    THEN CHOOSE i \in 1..Len(hs) :
           /\ KindOf(hs[i]) = key
           /\ \A j \in 1..(i - 1) : KindOf(hs[j]) # key
    ELSE 0

\* The outer for loop from entry i on; the load_state_dict of the hook that
\* entry f goes to raises (f = 0: none raises). w: the kinds warned about;
\* d: the load_state_dict calls made, each the hook called and its entry.
RECURSIVE ApplyEntries(_, _, _, _, _, _, _)
ApplyEntriesUntilUnmatched(hs, hst, es, i, f, w, d) ==
    IF i > Len(es)
    THEN [hstate |-> hst, warned |-> w, delivered |-> d, raised |-> "none"]
    ELSE LET m == FirstOfKind(hs, es[i].kind) IN
         IF m = 0
         THEN [hstate |-> hst, warned |-> Append(w, es[i].kind),
               delivered |-> d, raised |-> "none"]
         ELSE LET c == Append(d, [hook |-> hs[m], entry |-> i]) IN
              IF i = f
              THEN [hstate |-> hst, warned |-> w, delivered |-> c,
                    raised |-> "HookError"]
              ELSE ApplyEntries(hs, [hst EXCEPT ![hs[m]] = es[i].state],
                                es, i + 1, f, w, c)
ApplyEntriesNoBreak(hs, hst, es, i, f, w, d) ==
    IF i > Len(es)
    THEN [hstate |-> hst, warned |-> w, delivered |-> d, raised |-> "none"]
    ELSE LET m == FirstOfKind(hs, es[i].kind)
             all == SelectSeq(hs, LAMBDA h : KindOf(h) = es[i].kind)
         IN
         IF m = 0
         THEN ApplyEntries(hs, hst, es, i + 1, f, Append(w, es[i].kind), d)
         ELSE IF i = f
              THEN [hstate |-> hst, warned |-> w,
                    delivered |-> Append(d, [hook |-> hs[m], entry |-> i]),
                    raised |-> "HookError"]
              ELSE ApplyEntries(hs,
                     [h \in Hooks |->
                        IF \E j \in 1..Len(all) : all[j] = h
                        THEN es[i].state ELSE hst[h]],
                     es, i + 1, f, w,
                     d \o [j \in 1..Len(all) |-> [hook |-> all[j], entry |-> i]])
ApplyEntriesPastFailure(hs, hst, es, i, f, w, d) ==
    IF i > Len(es)
    THEN [hstate |-> hst, warned |-> w, delivered |-> d, raised |-> "none"]
    ELSE LET m == FirstOfKind(hs, es[i].kind) IN
         IF m = 0
         THEN ApplyEntries(hs, hst, es, i + 1, f, Append(w, es[i].kind), d)
         ELSE LET c == Append(d, [hook |-> hs[m], entry |-> i]) IN
              IF i = f
              THEN [ApplyEntries(hs, hst, es, i + 1, f, w, c)
                       EXCEPT !.raised = "HookError"]
              ELSE ApplyEntries(hs, [hst EXCEPT ![hs[m]] = es[i].state],
                                es, i + 1, f, w, c)
ApplyEntries(hs, hst, es, i, f, w, d) ==
    IF i > Len(es)
    THEN [hstate |-> hst, warned |-> w, delivered |-> d, raised |-> "none"]
    ELSE LET m == FirstOfKind(hs, es[i].kind) IN
         IF m = 0
         THEN ApplyEntries(hs, hst, es, i + 1, f, Append(w, es[i].kind), d)
         ELSE LET c == Append(d, [hook |-> hs[m], entry |-> i]) IN
              IF i = f
              THEN [hstate |-> hst, warned |-> w, delivered |-> c,
                    raised |-> "HookError"]
              ELSE ApplyEntries(hs, [hst EXCEPT ![hs[m]] = es[i].state],
                                es, i + 1, f, w, c)

\* load_state_dict(snap) on a runner with the hook list hs and hook states hst.
LoadIntoEpochAsIter(hs, hst, snap, f) ==
    LET r == ApplyEntries(hs, hst, snap.hooks, 1, f, <<>>, <<>>) IN
    [iter |-> snap.epoch, epoch |-> snap.epoch, optimizer |-> snap.optimizer,
     hstate |-> r.hstate, warned |-> r.warned, delivered |-> r.delivered,
     raised |-> r.raised]
LoadInto(hs, hst, snap, f) ==
    LET r == ApplyEntries(hs, hst, snap.hooks, 1, f, <<>>, <<>>) IN
    [iter |-> snap.iter, epoch |-> snap.epoch, optimizer |-> snap.optimizer,
     hstate |-> r.hstate, warned |-> r.warned, delivered |-> r.delivered,
     raised |-> r.raised]

\* A hook's load_state_dict can raise only where it is called.
CanRaiseAt(hs, snap, f) ==
    /\ f \in 0..Len(snap.hooks)
    /\ f > 0 => FirstOfKind(hs, snap.hooks[f].kind) # 0

LoadStateDict(snap, f) ==
    /\ status = "ready"
    /\ CanRaiseAt(hooks, snap, f)
    /\ LET r == LoadInto(hooks, hstate, snap, f) IN
        /\ iter' = r.iter
        /\ epoch' = r.epoch
        /\ opt' = r.optimizer
        /\ hstate' = r.hstate
        /\ res' = [Call("load_state_dict") EXCEPT
                     !.arg = snap, !.warned = r.warned, !.raised = r.raised,
                     !.failed = f, !.delivered = r.delivered]
    /\ UNCHANGED <<status, is_main, max_epochs, max_iters, hooks, priority,
                   registered, inner_iter, last_order>>
    /\ UNCHANGED <<mode, run_state, steps, group, writers>>

----------------------------------------------------------------------------
(* state_dict followed by load_state_dict on a fresh runner *)

\* A runner as __init__ leaves it, its hooks as their constructors leave them.
FreshRunner == NoRunner

\* load_state_dict(R.state_dict()) on a fresh runner with R's hook list.
RoundTrip ==
    /\ status = "ready"
    /\ LET snap == StateDictOf(iter, epoch, opt, hooks, hstate)
           r == LoadInto(hooks, FreshRunner.hstate, snap, 0)
       IN res' = [Call("round_trip") EXCEPT
                    !.ret = snap,
                    !.warned = r.warned,
                    !.fresh = [iter |-> r.iter, epoch |-> r.epoch,
                               optimizer |-> r.optimizer, hstate |-> r.hstate]]
    /\ UNCHANGED <<status, is_main, max_epochs, max_iters, hooks, priority,
                   registered, hstate, opt, iter, epoch, inner_iter, last_order>>
    /\ UNCHANGED <<mode, run_state, steps, group, writers>>

----------------------------------------------------------------------------
(* resume_or_load *)

\* self.checkpointer.resume_or_load(path, resume=resume): with resume and a
\* checkpoint on storage it hands the stored snapshot to the runner's
\* load_state_dict; otherwise it loads model weights only.
CheckpointerResumeOrLoad(hs, cur, resume, present, snap, f) ==
    IF resume /\ present
    THEN LoadInto(hs, cur.hstate, snap, f)
    ELSE [iter |-> cur.iter, epoch |-> cur.epoch, optimizer |-> cur.optimizer,
          hstate |-> cur.hstate, warned |-> <<>>, delivered |-> <<>>,
          raised |-> "none"]

\* Lines 116-120: the counters after the checkpointer returned r.
AfterResumeAlways(r, resume, present) ==
    [iter |-> r.iter + 1, epoch |-> r.epoch + 1]
AfterResumeIterOnly(r, resume, present) ==
    IF resume /\ present
    THEN [iter |-> r.iter + 1, epoch |-> r.epoch]
    ELSE [iter |-> r.iter, epoch |-> r.epoch]
AfterResume(r, resume, present) ==
    IF resume /\ present
    THEN [iter |-> r.iter + 1, epoch |-> r.epoch + 1]
    ELSE [iter |-> r.iter, epoch |-> r.epoch]

ResumeOrLoad(resume, present, snap, f) ==
    /\ status = "ready"
    /\ IF resume /\ present
       THEN CanRaiseAt(hooks, snap, f)
       ELSE snap = NoSnapshot /\ f = 0
    /\ LET cur == [iter |-> iter, epoch |-> epoch, optimizer |-> opt,
                   hstate |-> hstate]
           r == CheckpointerResumeOrLoad(hooks, cur, resume, present, snap, f)
           c == IF r.raised = "none" THEN AfterResume(r, resume, present)
                ELSE [iter |-> r.iter, epoch |-> r.epoch]
       IN /\ iter' = c.iter
          /\ epoch' = c.epoch
          /\ opt' = r.optimizer
          /\ hstate' = r.hstate
          /\ res' = [Call("resume_or_load") EXCEPT
                       !.resume = resume, !.present = present, !.arg = snap,
                       !.warned = r.warned, !.raised = r.raised,
                       !.failed = f, !.delivered = r.delivered]
    /\ UNCHANGED <<status, is_main, max_epochs, max_iters, hooks, priority,
                   registered, inner_iter, last_order>>
    /\ UNCHANGED <<mode, run_state, steps, group, writers>>

----------------------------------------------------------------------------
(* What the runner's collaborators do between its calls. *)

\* A registered hook's callbacks change the state it exports.
HookStateChange(h, v) ==
    /\ status = "ready"
    /\ \E i \in 1..Len(hooks) : hooks[i] = h
    /\ hstate[h] # v
    /\ hstate' = [hstate EXCEPT ![h] = v]
    /\ res' = Call("hook_state")
    /\ UNCHANGED <<status, is_main, max_epochs, max_iters, hooks, priority,
                   registered, opt, iter, epoch, inner_iter, last_order>>
    /\ UNCHANGED <<mode, run_state, steps, group, writers>>

\* One step of the run loop: iter grows by one; at an epoch boundary epoch
\* grows by one and inner_iter returns to 0, otherwise inner_iter grows by one;
\* the optimizer's state becomes o.
StepEffect(boundary, o) ==
    /\ status = "ready"
    /\ iter < MaxStep
    /\ epoch < MaxStep
    /\ inner_iter < MaxStep
    /\ iter' = iter + 1
    /\ IF boundary
       THEN epoch' = epoch + 1 /\ inner_iter' = 0
       ELSE epoch' = epoch /\ inner_iter' = inner_iter + 1
    /\ opt' = o
    /\ mode' = "train"
    /\ res' = Call("step")
    /\ UNCHANGED <<status, is_main, max_epochs, max_iters, hooks, priority,
                   registered, hstate, last_order>>
    /\ UNCHANGED <<group, writers>>

\* A step with no account kept of the run it belongs to.
Step(boundary, o) == StepEffect(boundary, o) /\ UNCHANGED <<run_state, steps>>

----------------------------------------------------------------------------
(* run *)

\* The budget the run loop stops at: max_iters steps or max_epochs epochs.
BudgetReachedLate(it, ep, mi, me) ==
    (mi # None /\ it > mi) \/ (me # None /\ ep > me)
BudgetReached(it, ep, mi, me) ==
    (mi # None /\ it >= mi) \/ (me # None /\ ep >= me)

\* run is entered: NOT_STARTED becomes RUNNING, or FINISHED when no step is due.
RunStart ==
    /\ status = "ready"
    /\ run_state = "NOT_STARTED"
    /\ run_state' = IF BudgetReached(iter, epoch, max_iters, max_epochs)
                    THEN "FINISHED" ELSE "RUNNING"
    /\ res' = Call("run")
    /\ UNCHANGED <<status, is_main, max_epochs, max_iters, hooks, priority,
                   registered, hstate, opt, iter, epoch, inner_iter, mode,
                   steps, group, writers, last_order>>

\* One turn of the run loop, with the hook dispatches around the step. A
\* failure of the step or of a dispatch ends the run as ABORTED and leaves run
\* as the exception it was raised as; a step that succeeds is counted, and
\* the run is FINISHED when it was the last one of the budget.
RunIteration(boundary, o, failure) ==
    /\ run_state = "RUNNING"
    /\ ~BudgetReached(iter, epoch, max_iters, max_epochs)
    /\ IF failure = "none"
       THEN /\ StepEffect(boundary, o)
            /\ steps' = steps + 1
            /\ run_state' = IF BudgetReached(iter', epoch', max_iters, max_epochs)
                            THEN "FINISHED" ELSE "RUNNING"
       ELSE /\ status = "ready"
            /\ run_state' = "ABORTED"
            /\ res' = [Call("run") EXCEPT !.raised = failure]
            /\ UNCHANGED <<status, is_main, max_epochs, max_iters, hooks,
                           priority, registered, hstate, opt, iter, epoch,
                           inner_iter, mode, steps, group, writers, last_order>>

----------------------------------------------------------------------------
(* The processes of a group, each with its own runner *)

\* The frame of what a process of the group does: the runner followed alone
\* is not touched.
PeerFrame ==
    UNCHANGED <<status, is_main, max_epochs, max_iters, hooks, priority,
                registered, hstate, opt, iter, epoch, inner_iter, mode,
                run_state, steps, last_order, res>>

\* __init__ on process p: is_main_process() is true on the main rank only.
PeerConstruct(p) ==
    /\ group[p].status = "new"
    /\ LET r == RegisterDefaultHook(p = MainRank, <<>>, group[p].priority, <<>>) IN
        group' = [group EXCEPT ![p] = [status |-> "ready",
                                       hooks |-> r.hooks,
                                       registered |-> r.registered,
                                       priority |-> r.priority]]
    /\ UNCHANGED writers
    /\ PeerFrame

\* register_hook on the runner of process p.
PeerRegister(p, h, pr) ==
    /\ group[p].status = "ready"
    /\ h = CkptHook => \E i \in 1..Len(group[p].hooks) : group[p].hooks[i] = h
    /\ LET r == RegisterInto(group[p].hooks, group[p].priority,
                             group[p].registered, h, pr) IN
        group' = [group EXCEPT ![p] = [status |-> "ready",
                                       hooks |-> r.hooks,
                                       registered |-> r.registered,
                                       priority |-> r.priority]]
    /\ UNCHANGED writers
    /\ PeerFrame

\* call_hook on the runner of process p, at an event the periodic checkpoint
\* hook saves at: p has written to storage if that hook is in its list.
PeerDispatch(p) ==
    /\ group[p].status = "ready"
    /\ LET d == Dispatched(group[p].hooks, 0) IN
        writers' = IF \E i \in 1..Len(d) : d[i] = CkptHook
                   THEN writers \cup {p} ELSE writers
    /\ UNCHANGED group
    /\ PeerFrame

----------------------------------------------------------------------------
(* The inputs. *)

\* The class names a snapshot's "hooks" dict is keyed by.
SnapKinds == {"PeriodicCheckpointer", "A", "B"}

Entry == [kind : SnapKinds, state : {1, 2}]

\* The "hooks" dicts: up to three items, in every insertion order.
HookEntries ==
    {es \in UNION {[1..n -> Entry] : n \in 0..Cardinality(SnapKinds)} :
        \A i, j \in 1..Len(es) : es[i].kind = es[j].kind => i = j}

Snap(it, ep, op, es) == [iter |-> it, epoch |-> ep, optimizer |-> op, hooks |-> es]

\* Snapshots with every "hooks" dict, and iter, epoch and optimizer state that
\* differ from one another and from a fresh runner's.
SnapshotsH == {Snap(MaxCount, MaxCount + 1, MaxState + 1, es) : es \in HookEntries}

\* Snapshots with every setting of the counters up to MaxCount, and the
\* snapshot with iter = 9 and epoch = 2.
SnapshotsC ==
    {Snap(c[1], c[2], o, es) :
        c \in ((0..MaxCount) \X (0..MaxCount)) \cup {<<9, 2>>},
        o \in {Empty, 1},
        es \in {<<>>, <<[kind |-> "PeriodicCheckpointer", state |-> 1]>>}}

\* Snapshots of two hook entries, for the restores in which a hook raises.
SnapshotsF ==
    {Snap(MaxCount, MaxCount, 1, es) :
        es \in {<<[kind |-> "A", state |-> 2],
                  [kind |-> "PeriodicCheckpointer", state |-> 2]>>,
                <<[kind |-> "B", state |-> 2], [kind |-> "A", state |-> 2]>>}}

----------------------------------------------------------------------------
(* The specifications. *)

Init ==
    /\ status = "new"
    /\ is_main \in BOOLEAN
    /\ max_epochs = None
    /\ max_iters = None
    /\ hooks = <<>>
    /\ priority = [h \in Hooks |-> IF h = UsedHook THEN NORMAL ELSE NoPriority]
    /\ registered = <<>>
    /\ hstate = [h \in Hooks |-> Empty]
    /\ opt = Empty
    /\ iter = 0
    /\ epoch = 0
    /\ inner_iter = 0
    /\ mode = "none"
    /\ run_state = "NOT_STARTED"
    /\ steps = 0
    /\ group = [p \in Procs |-> NoPeer]
    /\ writers = {}
    /\ last_order = [e \in Events |-> NotCalled]
    /\ res = NoRes

\* The hook registry: construction, registration and dispatch.
NextRegistry ==
    \/ \E mi \in Budgets, me \in Budgets : Construct(mi, me)
    \/ \E h \in Hooks, p \in PriorityInputs : RegisterHook(h, p)
    \/ \E fn \in Events, k \in 0..Cardinality(Hooks) : CallHook(fn, k, NoEffect)

SpecRegistry == Init /\ [][NextRegistry]_vars

\* Snapshot and restore: runners with up to two caller hooks of one class, whose
\* hooks change state, are snapshotted and restored.
NextSnapshot ==
    \/ Construct(None, None)
    \/ \E r \in {<<"a1", NORMAL>>, <<"a2", NORMAL>>, <<"a2", 5>>} :
          RegisterHook(r[1], r[2])
    \/ \E h \in Hooks, v \in States : HookStateChange(h, v)
    \/ StateDict
    \/ \E snap \in SnapshotsH : LoadStateDict(snap, 0)
    \/ RoundTrip

SpecSnapshot == Init /\ [][NextSnapshot]_vars

\* Resume: a constructed runner steps, is restored and resumes.
NextResume ==
    \/ Construct(None, None)
    \/ \E b \in BOOLEAN, o \in {Empty, 1} : Step(b, o)
    \/ \E fn \in Events, k \in 0..1 : CallHook(fn, k, NoEffect)
    \/ \E v \in {Empty, 1} : HookStateChange(CkptHook, v)
    \/ StateDict
    \/ \E snap \in SnapshotsC : LoadStateDict(snap, 0)
    \/ \E resume \in BOOLEAN, present \in BOOLEAN,
          snap \in SnapshotsC \cup {NoSnapshot} :
            ResumeOrLoad(resume, present, snap, 0)

SpecResume == Init /\ [][NextResume]_vars

\* A runner through its life: registrations, dispatches whose callbacks change
\* hook state and can raise, steps, snapshots, and restores that can raise.
NextLifecycle ==
    \/ Construct(None, None)
    \/ \E r \in {<<"a1", 10>>, <<"a2", 5>>} : RegisterHook(r[1], r[2])
    \/ Step(TRUE, 1)
    \/ \E k \in 0..3, v \in {NoEffect, 1} : CallHook("after_train_iter", k, v)
    \/ StateDict
    \/ \E snap \in SnapshotsF, f \in 0..2 : LoadStateDict(snap, f)
    \/ \E snap \in SnapshotsF, f \in 0..2 : ResumeOrLoad(TRUE, TRUE, snap, f)
    \/ ResumeOrLoad(FALSE, TRUE, NoSnapshot, 0)

SpecLifecycle == Init /\ [][NextLifecycle]_vars

\* A runner constructed with a budget and run.
NextRun ==
    \/ \E mi, me \in RunBudgets : Construct(mi, me)
    \/ RunStart
    \/ \E b \in BOOLEAN, o \in {Empty, 1},
          failure \in {"none", "StepError", "HookError"} :
            RunIteration(b, o, failure)

SpecRun == Init /\ [][NextRun]_vars

\* The processes of a group construct their runners, register the same kinds
\* of hooks and dispatch, in any interleaving.
NextGroup ==
    \/ \E p \in Procs : PeerConstruct(p)
    \/ \E p \in Procs, r \in {<<"a1", 10>>, <<"b1", 5>>, <<"a2", NORMAL>>} :
          PeerRegister(p, r[1], r[2])
    \/ \E p \in Procs : PeerDispatch(p)

SpecGroup == Init /\ [][NextGroup]_vars

----------------------------------------------------------------------------
(* Helpers of the properties. *)

InList(h) == \E i \in 1..Len(hooks) : hooks[i] = h

\* The position of h in the sequence s (0: not in it).
IndexIn(s, h) == IF \E i \in 1..Len(s) : s[i] = h
                 THEN CHOOSE i \in 1..Len(s) : s[i] = h
                 ELSE 0

NoDuplicates(s) == \A i, j \in 1..Len(s) : s[i] = s[j] => i = j

----------------------------------------------------------------------------
(* The hook registry. *)

\* C1: after any sequence of register_hook calls the hook list holds exactly the
\* registered hooks, sorted by non-decreasing priority, and hooks of equal
\* priority stand in the order of their registration; registering A(10), B(10),
\* C(5) in that order on an empty list yields C, A, B.
C1_SortedStable ==
    /\ {hooks[i] : i \in 1..Len(hooks)} = {registered[i] : i \in 1..Len(registered)}
    /\ Len(hooks) = Len(registered)
    /\ \A i, j \in 1..Len(hooks) :
          i < j =>
            /\ priority[hooks[i]] <= priority[hooks[j]]
            /\ priority[hooks[i]] = priority[hooks[j]] =>
                  IndexIn(registered, hooks[i]) < IndexIn(registered, hooks[j])
    /\ ( /\ registered = <<"a1", "a2", "b1">>
         /\ priority["a1"] = 10 /\ priority["a2"] = 10 /\ priority["b1"] = 5 )
       => hooks = <<"b1", "a1", "a2">>

C1_Witness ==
    /\ registered = <<"a1", "a2", "b1">>
    /\ priority["a1"] = 10 /\ priority["a2"] = 10 /\ priority["b1"] = 5
    /\ hooks = <<"b1", "a1", "a2">>

\* C2: a call_hook that returns has invoked the callback of every hook of the
\* list exactly once, in list order, and in the same order as the last completed
\* dispatch of the same event when no hook was registered in between.
C2_DispatchOrder ==
    (res.op = "call_hook" /\ res.raised = "none") =>
        /\ res.dispatched = hooks
        /\ \A h \in Hooks :
              Cardinality({i \in 1..Len(res.dispatched) : res.dispatched[i] = h})
                = IF InList(h) THEN 1 ELSE 0
        /\ res.prev # NotCalled => res.dispatched = res.prev

C2_Witness ==
    /\ res.op = "call_hook" /\ res.raised = "none"
    /\ res.prev # NotCalled
    /\ Len(res.dispatched) >= 3
    /\ res.dispatched # registered

\* C3: register_hook on a hook that carries a priority raises and leaves the
\* hook list and every priority as they were; no hook occurs twice in the list.
C3_DoubleRegistration ==
    [][ /\ NoDuplicates(hooks')
        /\ (res'.op = "register_hook" /\ priority[res'.hook] # NoPriority) =>
              /\ res'.raised = "ValueError"
              /\ hooks' = hooks
              /\ priority' = priority
              /\ registered' = registered ]_vars

C3_Witness ==
    /\ res.op = "register_hook" /\ res.raised = "ValueError"
    /\ InList(res.hook)
    /\ Len(hooks) >= 2

\* C9: __init__ with both max_epochs and max_iters raises, __init__ with neither
\* returns, and a constructed runner never has both set.
C9_ExclusiveBudget ==
    /\ status = "ready" => ~(max_epochs # None /\ max_iters # None)
    /\ res.op = "__init__" =>
          /\ (res.budgets[1] # None /\ res.budgets[2] # None) =>
                (status = "failed" /\ res.raised = "ValueError")
          /\ (res.budgets[1] = None /\ res.budgets[2] = None) =>
                (status = "ready" /\ res.raised = "none")

C9_Witness ==
    /\ status = "failed"
    /\ res.op = "__init__" /\ res.raised = "ValueError"
    /\ res.budgets = <<MaxCount, MaxCount>>

----------------------------------------------------------------------------
(* Snapshot and restore. *)

\* The positions in the hook list of the hooks of class k.
OfKind(k) == {i \in 1..Len(hooks) : KindOf(hooks[i]) = k}

Least(S) == CHOOSE i \in S : \A j \in S : i <= j

\* The state a snapshot's "hooks" dict holds under the key k.
EntryState(snap, k) ==
    snap.hooks[CHOOSE i \in 1..Len(snap.hooks) : snap.hooks[i].kind = k].state

\* Every hook that exports a non-empty state is the first of its class in the
\* hook list.
StatefulHooksFirstOfKind ==
    \A i \in 1..Len(hooks) :
        hstate[hooks[i]] # Empty => i = Least(OfKind(KindOf(hooks[i])))

\* C4 as stated: load_state_dict(R.state_dict()) on a fresh runner with R's hooks
\* gives R's iter and epoch and, for every hook, the state the hook exports in R.
C4_RoundTripAnyHooks ==
    res.op = "round_trip" =>
        /\ res.fresh.iter = iter
        /\ res.fresh.epoch = epoch
        /\ \A i \in 1..Len(hooks) : res.fresh.hstate[hooks[i]] = hstate[hooks[i]]

\* C4 amended: the round trip reproduces iter, epoch and every hook's exported
\* state when every hook of R that exports a non-empty state is the first of its
\* class in the hook list (so whenever no two hooks share a class).
C4_RoundTrip ==
    (res.op = "round_trip" /\ StatefulHooksFirstOfKind) =>
        /\ res.fresh.iter = iter
        /\ res.fresh.epoch = epoch
        /\ \A i \in 1..Len(hooks) : res.fresh.hstate[hooks[i]] = hstate[hooks[i]]
        /\ res.warned = <<>>

C4_Witness ==
    /\ res.op = "round_trip" /\ StatefulHooksFirstOfKind
    /\ iter > 0 /\ epoch > 0
    /\ hooks = <<"a2", CkptHook, "a1">>
    /\ hstate["a2"] = 2 /\ hstate[CkptHook] = 1 /\ hstate["a1"] = Empty
    /\ res.fresh.hstate["a2"] = 2

\* C7: load_state_dict on a snapshot with an entry of a class no registered hook
\* has returns; it warns once per such entry, in entry order, changes no hook
\* for it, and sets iter, epoch, the optimizer state and, for every other
\* entry, the state of the first hook of the entry's class.
C7_UnmatchedEntry ==
    [][ res'.op = "load_state_dict" =>
          LET es == res'.arg.hooks
              unmatched == {i \in 1..Len(es) : OfKind(es[i].kind) = {}}
          IN /\ res'.raised = "none"
             /\ iter' = res'.arg.iter
             /\ epoch' = res'.arg.epoch
             /\ opt' = res'.arg.optimizer
             /\ Len(res'.warned) = Cardinality(unmatched)
             /\ \A i \in unmatched :
                   res'.warned[Cardinality({j \in unmatched : j <= i})] = es[i].kind
             /\ \A n \in 1..Len(hooks) :
                   hstate'[hooks[n]] =
                     IF HasKey(es, KindOf(hooks[n])) /\ n = Least(OfKind(KindOf(hooks[n])))
                     THEN EntryState(res'.arg, KindOf(hooks[n]))
                     ELSE hstate[hooks[n]] ]_vars

C7_Witness ==
    /\ res.op = "load_state_dict" /\ res.raised = "none"
    /\ Len(res.arg.hooks) = 3
    /\ OfKind(res.arg.hooks[1].kind) # {}
    /\ OfKind(res.arg.hooks[2].kind) = {}
    /\ OfKind(res.arg.hooks[3].kind) # {}
    /\ res.warned = <<res.arg.hooks[2].kind>>
    /\ hstate[hooks[Least(OfKind(res.arg.hooks[1].kind))]] = res.arg.hooks[1].state
    /\ hstate[hooks[Least(OfKind(res.arg.hooks[3].kind))]] = res.arg.hooks[3].state
    /\ iter = res.arg.iter /\ epoch = res.arg.epoch /\ opt = res.arg.optimizer

\* The classes two or more registered hooks have.
SharedKinds == {k \in Kinds : Cardinality(OfKind(k)) >= 2}

\* C8 as stated: the entry state_dict stores under a class that several
\* registered hooks have is the state of the first registered of them.
C8_FirstRegistered ==
    res.op = "state_dict" =>
        \A k \in SharedKinds :
            HasKey(res.ret.hooks, k) =>
                LET first == CHOOSE i \in OfKind(k) :
                        \A j \in OfKind(k) :
                            IndexIn(registered, hooks[i]) <= IndexIn(registered, hooks[j])
                IN EntryState(res.ret, k) = hstate[hooks[first]]

\* C8 amended: state_dict returns, and the entry it stores under a class that
\* several registered hooks have is the state of the first hook in hook-list
\* order among those of the class that export a non-empty state; there is no
\* entry when none of them does.
C8_FirstNonEmptyInList ==
    res.op = "state_dict" =>
        /\ res.raised = "none"
        /\ \A k \in SharedKinds :
              LET stateful == {i \in OfKind(k) : hstate[hooks[i]] # Empty} IN
              /\ Cardinality({j \in 1..Len(res.ret.hooks) : res.ret.hooks[j].kind = k})
                    = IF stateful = {} THEN 0 ELSE 1
              /\ stateful # {} =>
                    EntryState(res.ret, k) = hstate[hooks[Least(stateful)]]

C8_Witness ==
    /\ res.op = "state_dict"
    /\ registered = <<"a1", "a2">> /\ hooks = <<"a2", "a1">>
    /\ hstate["a1"] = 1 /\ hstate["a2"] = 2
    /\ EntryState(res.ret, "A") = 2

----------------------------------------------------------------------------
(* Resume and the counters. *)

\* The last call was a resume_or_load that found a checkpoint to resume from.
Resumed(r) == r.op = "resume_or_load" /\ r.resume /\ r.present

\* C5: when resume_or_load resumes from a checkpoint and returns, iter and epoch
\* are one more than the iter and epoch of the restored snapshot; iter = 9,
\* epoch = 2 gives iter = 10, epoch = 3.
C5_ResumeIncrement ==
    (Resumed(res) /\ res.raised = "none") =>
        /\ iter = res.arg.iter + 1
        /\ epoch = res.arg.epoch + 1
        /\ (res.arg.iter = 9 /\ res.arg.epoch = 2) => (iter = 10 /\ epoch = 3)

C5_Witness ==
    /\ Resumed(res) /\ res.raised = "none"
    /\ res.arg.iter = 9 /\ res.arg.epoch = 2
    /\ iter = 10 /\ epoch = 3
    /\ inner_iter > 0

\* C6: a resume_or_load that starts fresh (resume = False, or no checkpoint)
\* leaves iter, epoch and inner_iter as they are; called on a runner as
\* constructed it leaves them 0, 0, 0.
C6_FreshStart ==
    [][ (res'.op = "resume_or_load" /\ ~(res'.resume /\ res'.present)) =>
          /\ iter' = iter /\ epoch' = epoch /\ inner_iter' = inner_iter
          /\ res.op = "__init__" => (iter' = 0 /\ epoch' = 0 /\ inner_iter' = 0) ]_vars

C6_Witness ==
    /\ res.op = "resume_or_load" /\ res.resume /\ ~res.present
    /\ iter = 0 /\ epoch = 0 /\ inner_iter = 0

\* C10 as stated: iter is never negative and no call on the runner takes it to
\* a smaller value.
C10_IterNeverDecreases == [][iter' >= 0 /\ iter' >= iter]_vars

\* C10 amended: iter is never negative; load_state_dict sets it to the
\* snapshot's iter and a resume to the snapshot's iter plus one, whatever it
\* was; every other call leaves it equal or larger.
C10_IterOverwrittenByRestore ==
    [][ /\ iter' >= 0
        /\ res'.op = "load_state_dict" => iter' = res'.arg.iter
        /\ (Resumed(res') /\ res'.raised = "none") => iter' = res'.arg.iter + 1
        /\ (res'.op # "load_state_dict" /\ ~Resumed(res')) => iter' >= iter ]_vars

C10_Witness ==
    /\ res.op = "load_state_dict"
    /\ iter = 0 /\ res.arg.iter = 0
    /\ inner_iter > 0

----------------------------------------------------------------------------
(* state_dict is a read *)

\* C11: a state_dict call changes neither iter, epoch, inner_iter, mode, the
\* hook list (its members, their order, the order they were registered in),
\* any hook's priority, any hook's state nor the optimizer's state; a
\* state_dict call that follows a state_dict call returns the same snapshot.
C11_PureRead ==
    [][res'.op = "state_dict" =>
         /\ UNCHANGED <<iter, epoch, inner_iter, mode, hooks, priority,
                        registered, hstate, opt>>
         /\ res.op = "state_dict" => res'.ret = res.ret]_vars

\* A snapshot was taken of a runner in train mode that has stepped and has
\* three hooks, two of them with state.
C11_Witness ==
    /\ res.op = "state_dict"
    /\ mode = "train"
    /\ iter > 0
    /\ Len(hooks) = 3
    /\ Len(res.ret.hooks) = 2

----------------------------------------------------------------------------
(* The run loop *)

\* C12: a run goes NOT_STARTED, RUNNING, then FINISHED or ABORTED and stays
\* there. A run constructed with max_iters = N is RUNNING while it has
\* completed fewer than N steps, is FINISHED once it has completed exactly N,
\* and takes no step after that; a failure of a step or of a hook dispatch
\* leaves it ABORTED with the failure raised from run, and no step is taken
\* after that either.
C12_RunStateMachine ==
    [][/\ run_state' # run_state =>
            <<run_state, run_state'>> \in {<<"NOT_STARTED", "RUNNING">>,
                                           <<"RUNNING", "FINISHED">>,
                                           <<"RUNNING", "ABORTED">>}
       /\ (max_iters' # None /\ run_state' = "RUNNING") => steps' < max_iters'
       /\ (max_iters' # None /\ run_state' = "FINISHED") =>
            steps' = max_iters' /\ iter' = max_iters'
       /\ run_state \in {"FINISHED", "ABORTED"} =>
            steps' = steps /\ iter' = iter /\ res'.op # "step"
       /\ (run_state = "RUNNING" /\ res'.raised # "none") =>
            run_state' = "ABORTED" /\ steps' = steps /\ iter' = iter
       /\ (run_state = "RUNNING" /\ run_state' = "ABORTED") =>
            res'.op = "run" /\ res'.raised \in {"StepError", "HookError"}]_vars

\* A run with max_iters = MaxStep has finished after MaxStep steps.
C12_Witness ==
    /\ run_state = "FINISHED"
    /\ max_iters = MaxStep
    /\ steps = MaxStep
    /\ iter = MaxStep

----------------------------------------------------------------------------
(* Registered hooks stay *)

\* C13: whatever is called next (register_hook, call_hook, state_dict,
\* load_state_dict, resume_or_load, a step), every hook of the list is still
\* in it afterwards with the priority it had, any two hooks of the list are
\* still in the same order, and the list is longer by one after a
\* register_hook that succeeded (the one __init__ makes on the main process
\* included) and as long as before after anything else.
C13_NeverRemoved ==
    [][/\ \A i \in 1..Len(hooks) :
            /\ IndexIn(hooks', hooks[i]) # 0
            /\ priority'[hooks[i]] = priority[hooks[i]]
       /\ \A i, j \in 1..Len(hooks) :
            i < j => IndexIn(hooks', hooks[i]) < IndexIn(hooks', hooks[j])
       /\ Len(hooks') =
            IF \/ res'.op = "register_hook" /\ res'.raised = "none"
               \/ res'.op = "__init__" /\ res'.raised = "none" /\ is_main
            THEN Len(hooks) + 1
            ELSE Len(hooks)]_vars

\* A hook was registered between two hooks that were in the list, which has
\* been through a dispatch since.
C13_Witness ==
    /\ hooks = <<"a2", "a1", CkptHook>>
    /\ registered = <<CkptHook, "a2", "a1">>
    /\ res.op = "load_state_dict"
    /\ res.raised = "HookError"

----------------------------------------------------------------------------
(* What a snapshot holds *)

\* C14: the snapshot state_dict returns has iter and epoch equal to the
\* runner's counters, and its hook mapping has an entry for a kind exactly
\* when some hook of the list of that kind exports a non-empty state.
C14_SnapshotContent ==
    res.op = "state_dict" =>
        /\ res.ret.iter = iter
        /\ res.ret.epoch = epoch
        /\ \A k \in Kinds :
             HasKey(res.ret.hooks, k) <=>
                \E i \in OfKind(k) : hstate[hooks[i]] # Empty

\* A snapshot of a runner with counters above 0 and three hooks: two of one
\* kind, one of them with state, and the checkpoint hook without state.
C14_Witness ==
    /\ res.op = "state_dict"
    /\ iter > 0
    /\ epoch > iter
    /\ Len(hooks) = 3
    /\ Cardinality(OfKind("A")) = 2
    /\ \E i \in OfKind("A") : hstate[hooks[i]] = Empty
    /\ InList(CkptHook)
    /\ hstate[CkptHook] = Empty
    /\ Len(res.ret.hooks) = 1

----------------------------------------------------------------------------
(* A callback that raises *)

\* C15: when the callback of the k-th hook raises during call_hook, the
\* exception leaves call_hook; the hooks invoked are hooks 1..k of the list,
\* each once and in list order, so none after the k-th; what the callbacks of
\* hooks 1..k-1 did to their hooks stays, the hooks after the k-th are as
\* they were, and the runner's list and counters are as they were.
C15_FailurePropagates ==
    [][(res'.op = "call_hook" /\ res'.failed > 0) =>
         LET k == res'.failed IN
         /\ res'.raised = "HookError"
         /\ res'.dispatched = SubSeq(hooks, 1, k)
         /\ NoDuplicates(res'.dispatched)
         /\ \A i \in 1..(k - 1) :
              res'.effect # NoEffect => hstate'[hooks[i]] = res'.effect
         /\ \A i \in (k + 1)..Len(hooks) : hstate'[hooks[i]] = hstate[hooks[i]]
         /\ UNCHANGED <<hooks, priority, iter, epoch, inner_iter, opt>>]_vars

\* The second of three hooks raised: the first holds what its callback left,
\* the third was not reached.
C15_Witness ==
    /\ res.op = "call_hook"
    /\ res.failed = 2
    /\ res.raised = "HookError"
    /\ res.effect = 1
    /\ Len(hooks) = 3
    /\ hstate[hooks[1]] = 1
    /\ hstate[hooks[3]] = Empty

----------------------------------------------------------------------------
(* A hook that raises while the runner is restored *)

\* C16: when the load_state_dict of the hook that entry f of the snapshot
\* goes to raises, the exception leaves the runner's load_state_dict, and
\* resume_or_load when the restore was made from there; iter, epoch and the
\* optimizer's state are the snapshot's (inside resume_or_load too: 1 is not
\* added to the counters), every entry before f that has a hook has been given
\* to it, no hook was called for an entry after f, and the hooks the entries
\* after f would go to are as they were.
C16_RestoreFailure ==
    [][(res'.op \in {"load_state_dict", "resume_or_load"} /\ res'.failed > 0) =>
         LET f == res'.failed
             es == res'.arg.hooks
         IN
         /\ res'.raised = "HookError"
         /\ iter' = res'.arg.iter
         /\ epoch' = res'.arg.epoch
         /\ opt' = res'.arg.optimizer
         /\ \A i \in 1..(f - 1) :
              OfKind(es[i].kind) # {} =>
                 hstate'[hooks[Least(OfKind(es[i].kind))]] = es[i].state
         /\ \A i \in (f + 1)..Len(es) :
              OfKind(es[i].kind) # {} =>
                 hstate'[hooks[Least(OfKind(es[i].kind))]] =
                    hstate[hooks[Least(OfKind(es[i].kind))]]
         /\ \A j \in 1..Len(res'.delivered) : res'.delivered[j].entry <= f
         /\ UNCHANGED <<hooks, priority, inner_iter>>]_vars

\* resume_or_load on a runner at 0 whose checkpoint hook raised on the second
\* entry: the counters are the snapshot's, the first entry is with its hook.
C16_Witness ==
    /\ res.op = "resume_or_load"
    /\ res.resume /\ res.present
    /\ res.failed = 2
    /\ res.raised = "HookError"
    /\ res.arg.iter > 0
    /\ iter = res.arg.iter
    /\ epoch = res.arg.epoch
    /\ hooks = <<"a2", "a1", CkptHook>>
    /\ hstate["a2"] = 2
    /\ hstate[CkptHook] # 2

----------------------------------------------------------------------------
(* The processes of a group *)

HasCkptHook(p) == \E i \in 1..Len(group[p].hooks) : group[p].hooks[i] = CkptHook

\* C17: in a group of processes that construct runners, register hooks and
\* dispatch in any interleaving, the runner of a process other than the main
\* one never has the periodic checkpoint hook in its list, and no process but
\* the main one has written a checkpoint.
C17_OnlyMainWrites ==
    /\ \A p \in Procs \ {MainRank} : ~HasCkptHook(p)
    /\ writers \subseteq {MainRank}

\* Every process has a runner with hooks and has dispatched; one has written.
C17_Witness ==
    /\ \A p \in Procs : group[p].status = "ready" /\ Len(group[p].hooks) >= 2
    /\ writers = {MainRank}

\* The register_hook calls made on the runner of p, __init__'s own left out.
UserCalls(p) ==
    LET rg == SelectSeq(group[p].registered, LAMBDA h : h # CkptHook) IN
    [i \in 1..Len(rg) |-> <<rg[i], group[p].priority[rg[i]]>>]

KindsOf(hs) == [i \in 1..Len(hs) |-> KindOf(hs[i])]

SameCalls(p, q) ==
    /\ group[p].status = "ready"
    /\ group[q].status = "ready"
    /\ UserCalls(p) = UserCalls(q)

\* C18 as stated: two processes whose runners were constructed and given the
\* same register_hook calls have lists of the same kinds in the same order,
\* the periodic checkpoint hook included.
C18_SameHookSet ==
    \A p, q \in Procs :
        SameCalls(p, q) => KindsOf(group[p].hooks) = KindsOf(group[q].hooks)

\* C18: two processes whose runners were constructed and given the same
\* register_hook calls have the same hooks in the same order once the
\* periodic checkpoint hook is left out, and that hook is in the list of the
\* main process and in no other.
C18_SameHooksButCheckpoint ==
    \A p, q \in Procs :
        SameCalls(p, q) =>
            /\ SelectSeq(group[p].hooks, LAMBDA h : h # CkptHook) =
               SelectSeq(group[q].hooks, LAMBDA h : h # CkptHook)
            /\ HasCkptHook(p) <=> p = MainRank
            /\ Len(group[p].hooks) =
               Len(UserCalls(p)) + (IF p = MainRank THEN 1 ELSE 0)

\* The main process and another were given the same three calls: the lists
\* differ by the checkpoint hook alone.
C18_Witness ==
    \E q \in Procs \ {MainRank} :
        /\ SameCalls(MainRank, q)
        /\ Len(UserCalls(q)) = 3
        /\ KindsOf(group[MainRank].hooks) = <<"B", "A", "PeriodicCheckpointer", "A">>
        /\ KindsOf(group[q].hooks) = <<"B", "A", "A">>

----------------------------------------------------------------------------
(* Who an entry of a snapshot goes to *)

\* C19: in load_state_dict every entry of the snapshot's hook mapping is given
\* to at most one hook, and to exactly one when the list has a hook of the
\* entry's kind: the first hook of that kind in list order. So no hook that
\* comes after a hook of its own kind is called, and no hook whose kind is
\* not a key of the mapping is called.
C19_AtMostOneHook ==
    (res.op = "load_state_dict" /\ res.raised = "none") =>
        LET es == res.arg.hooks
            d == res.delivered
        IN
        /\ \A i \in 1..Len(es) :
             Cardinality({j \in 1..Len(d) : d[j].entry = i}) =
                IF OfKind(es[i].kind) = {} THEN 0 ELSE 1
        /\ \A j \in 1..Len(d) :
             /\ d[j].entry \in 1..Len(es)
             /\ KindOf(d[j].hook) = es[d[j].entry].kind
             /\ d[j].hook = hooks[Least(OfKind(es[d[j].entry].kind))]
        /\ \A n \in 1..Len(hooks) :
             (\/ ~HasKey(es, KindOf(hooks[n]))
              \/ \E n0 \in 1..(n - 1) : KindOf(hooks[n0]) = KindOf(hooks[n]))
             => \A j \in 1..Len(d) : d[j].hook # hooks[n]

\* A snapshot with an entry for A and one for B was loaded into a runner with
\* two hooks of kind A and the checkpoint hook: one call was made, to the
\* first hook of kind A; the second keeps the state it had.
C19_Witness ==
    /\ res.op = "load_state_dict"
    /\ res.raised = "none"
    /\ Len(res.arg.hooks) = 2
    /\ HasKey(res.arg.hooks, "A")
    /\ HasKey(res.arg.hooks, "B")
    /\ hooks = <<"a2", CkptHook, "a1">>
    /\ Len(res.delivered) = 1
    /\ res.delivered[1].hook = "a2"
    /\ hstate["a2"] = EntryState(res.arg, "A")
    /\ hstate["a1"] # EntryState(res.arg, "A")
    /\ hstate["a1"] # Empty

====
